---- MODULE Spec2Model ----
(***************************************************************************)
(* A state-machine model of multicube's SubCube session (src/subcube.py):  *)
(* the parameter grid builder, the model synthesizer and the best-guess    *)
(* selector, with the signal/noise estimator that feeds the selector.      *)
(*                                                                         *)
(* Numbers.  Parameter values, fluxes and model spectra are floats in the  *)
(* source.  Here they are exact fixed-point numbers: an integer v stands   *)
(* for v / Scale, with Scale chosen so that every np.linspace step of the  *)
(* checked finesses is exact.  Floating-point rounding is not modelled.    *)
(* A residual RMS (a standard deviation over channels) is represented by   *)
(* C * sum(d^2) - sum(d)^2, which is C^2 times its square: a strictly      *)
(* increasing function of the standard deviation, so minima, ties and      *)
(* argmin positions are those of the source.                               *)
(*                                                                         *)
(* Optional values: None is the empty tuple and Some(v) the 1-tuple <<v>>. *)
(* An attribute that was never assigned is None as well.                   *)
(***************************************************************************)
EXTENDS Integers, Sequences, FiniteSets, TLC

(***************************************************************************)
(* Bounds of the model                                                     *)
(***************************************************************************)
\* largest finesse (cells per dimension) handed to the grid builder
MaxFinesse == 2
\* longest parameter vector handed to the grid builder in SpecGrid
MaxNPars == 3
\* most expand_guess_grid calls applied on top of one make_guess_grid
MaxExpand == 2
\* spatial size of the cube, rows (Y) and columns (X)
NY == 2
NX == 2
\* number of spectral channels of the cube
NChan == 5
\* cubes are drawn from a family indexed 0..MaxSeed
MaxSeed == 2
\* best maps of other sizes: up to MaxMapRows rows, up to MaxWide columns
MaxMapRows == 3
MaxWide == 21
\* their model indices: steps of up to MaxStep per pixel, up to MaxModels models
MaxStep == 2
MaxModels == 4
\* velocity width of a channel, km/s
ChanWidth == 2

(***************************************************************************)
(* Program constants                                                       *)
(***************************************************************************)
\* parameters of the gaussian model: amplitude, centre, width
NPars == 3
\* 2**30 bytes, counted in 8-byte words (one np.float64 item): all memory
\* sizes of the model are in these words, so that cube.nbytes is cube.size
GiB == 134217728
\* np.inf among the residuals
Inf == 2147483647
\* np.nan as a model index
NaN == -1
\* assumed free GB when "free -g" cannot be parsed
DefaultMemGB == 8

(***************************************************************************)
(* Generic helpers                                                         *)
(***************************************************************************)
None == <<>>
Some(v) == <<v>>
IsNone(o) == Len(o) = 0
IsSome(o) == Len(o) = 1
Get(o) == o[1]

Min2(a, b) == IF a <= b THEN a ELSE b
Max2(a, b) == IF a >= b THEN a ELSE b

RECURSIVE SeqSum(_)
SeqSum(s) == IF Len(s) = 0 THEN 0 ELSE s[1] + SeqSum(Tail(s))

RECURSIVE SeqProd(_)
SeqProd(s) == IF Len(s) = 0 THEN 1 ELSE s[1] * SeqProd(Tail(s))

RECURSIVE Factorial(_)
Factorial(n) == IF n <= 1 THEN 1 ELSE n * Factorial(n - 1)

RECURSIVE Flatten(_)
Flatten(ss) == IF Len(ss) = 0 THEN <<>> ELSE ss[1] \o Flatten(Tail(ss))

\* fixed-point unit: every linspace denominator 1..MaxFinesse+1 divides it
Scale == Factorial(MaxFinesse + 1)

(***************************************************************************)
(* State                                                                   *)
(***************************************************************************)
VARIABLES
    cube,            \* self.cube: [channel -> [y -> [x -> flux]]]
    strict_index,    \* environment: numpy rejects a boolean index of the wrong length
    fittype,         \* self.fittype (None until update_model)
    fiteach_args,    \* self.fiteach_args (None until make_guess_grid)
    guess_grid,      \* self.guess_grid: None or Some(sequence of P-vectors)
    model_grid,      \* self.model_grid: None or Some([shape, rows, memmap])
    files,           \* the file system: file name -> None or Some(model grid rows)
    mask_signal,     \* self._mask_signal
    mask_noise,      \* self._mask_noise
    signal_map,      \* self._signal_map
    rms_map,         \* self._rms_map
    snr_map,         \* self.snr_map
    best_map,        \* self._best_map
    best_rmsmap,     \* self._best_rmsmap
    best_guesses,    \* self.best_guesses
    best_model,      \* self._best_model
    best_guess_attr, \* the instance attribute self.best_guess, which shadows the method
    best_snr_guess,  \* self.best_snr_guess
    last,            \* the last call: operation, arguments, return value, exception, log
    hist,            \* history: the grid-builder arguments behind guess_grid, oldest first
    xarr_given,      \* the spectral axis the cube came with: [unit, velocity_convention, refX]
    velocity_convention \* self.xarr.velocity_convention: None or Some(name)

envvars  == <<cube, strict_index, xarr_given, velocity_convention>>
gridvars == <<fittype, fiteach_args, guess_grid, hist>>
synvars  == <<model_grid, files>>
snrvars  == <<mask_signal, mask_noise, signal_map, rms_map, snr_map>>
selvars  == <<best_map, best_rmsmap, best_guesses, best_model, best_guess_attr, best_snr_guess>>
vars     == <<envvars, gridvars, synvars, snrvars, selvars, last>>

(***************************************************************************)
(* Parameter grid builder: SubCube._grid_parspace                          *)
(***************************************************************************)
\* np.asarray of a list of numbers, as fixed-point integers
asarray(v) == [i \in 1..Len(v) |-> v[i] * Scale]

\* np.linspace(lo, hi, n): n equally spaced points, both ends included
linspace(lo, hi, n) ==
    [j \in 1..n |-> IF n = 1 THEN lo ELSE lo + ((j - 1) * (hi - lo)) \div (n - 1)]

\* np.atleast_1d(finesse) * np.ones(npars): a scalar (length 1) is broadcast
conform_finesse(finesse, npars) ==
    [i \in 1..npars |-> IF Len(finesse) = 1 THEN finesse[1] ELSE finesse[i]]

\* a slicing slip: [:-2] in place of [1:][:-1] keeps the lower edge
par_slice_1d_lower_edge(i_min, i_max, i_fin, clip_edges) ==
    IF clip_edges
    THEN SubSeq(linspace(i_min, i_max, i_fin + 2), 1, i_fin)
    ELSE linspace(i_min, i_max, i_fin)

\* one dimension's points: the edges are dropped when clip_edges
par_slice_1d(i_min, i_max, i_fin, clip_edges) ==
    IF clip_edges
    THEN SubSeq(linspace(i_min, i_max, i_fin + 2), 2, i_fin + 1)
    ELSE linspace(i_min, i_max, i_fin)

par_space_of(minpars, maxpars, finesse, clip_edges) ==
    LET fin == conform_finesse(finesse, Len(minpars))
    IN  [i \in 1..Len(minpars) |->
            par_slice_1d(minpars[i], maxpars[i], fin[i], clip_edges)]

\* np.meshgrid(*xi) with its default indexing='xy': the output arrays have the
\* first two axes swapped, shape (n2, n1, n3, ..., nP)
meshgrid_shape(lens) ==
    IF Len(lens) < 2 THEN lens
    ELSE <<lens[2], lens[1]>> \o SubSeq(lens, 3, Len(lens))

\* the axis of the meshgrid output along which parameter i varies
meshgrid_axis(i, npars) ==
    IF npars < 2 THEN i ELSE IF i = 1 THEN 2 ELSE IF i = 2 THEN 1 ELSE i

\* C-order (row-major) strides of an array of this shape, in elements
c_strides(shape) ==
    [a \in 1..Len(shape) |-> SeqProd(SubSeq(shape, a + 1, Len(shape)))]

\* position k (from 0) of the flattened array as the 0-based index on each
\* axis: what reshape(npars, nguesses) reads
unravel_index(k, shape, strides) ==
    [a \in 1..Len(shape) |-> (k \div strides[a]) % shape[a]]

\* the builder as it would be with np.meshgrid(..., indexing='ij')
_grid_parspace_ij(minpars, maxpars, finesse, clip_edges) ==
    LET npars     == Len(minpars)
        par_space == par_space_of(minpars, maxpars, finesse, clip_edges)
        lens      == [i \in 1..npars |-> Len(par_space[i])]
        strides   == c_strides(lens)
    IN  [k \in 1..SeqProd(lens) |->
            LET idx == unravel_index(k - 1, lens, strides)
            IN  [i \in 1..npars |-> par_space[i][idx[i] + 1]]]

_grid_parspace(minpars, maxpars, finesse, clip_edges) ==
    LET npars     == Len(minpars)
        par_space == par_space_of(minpars, maxpars, finesse, clip_edges)
        lens      == [i \in 1..npars |-> Len(par_space[i])]
        nguesses  == SeqProd(lens)
        shape     == meshgrid_shape(lens)
        strides   == c_strides(shape)
    IN  [k \in 1..nguesses |->
            LET idx == unravel_index(k - 1, shape, strides)
            IN  [i \in 1..npars |-> par_space[i][idx[meshgrid_axis(i, npars)] + 1]]]

bounds_error_silent(minpars, maxpars) == {}

\* the log.error of _grid_parspace: np.any(minpars > maxpars)
bounds_error_logged(minpars, maxpars) ==
    IF \E i \in 1..Len(minpars) : minpars[i] > maxpars[i]
    THEN {"error: minimal parameters larger than the maximal ones"} ELSE {}

(***************************************************************************)
(* Session operations on the guess grid                                    *)
(***************************************************************************)
Call(op, args, ret, err, log) ==
    [op |-> op, args |-> args, ret |-> ret, err |-> err, log |-> log]

\* SubCube.__init__ on the velocity convention of the spectral axis
init_velocity_convention(given) == IF IsNone(given) THEN Some("radio") ELSE given

\* a spectral axis in velocity units with its convention and rest frequency
VelocityAxis == [unit |-> "km/s", velocity_convention |-> Some("radio"), refX |-> TRUE]

\* SubCube.__init__: the velocity convention is filled in, both grids are
\* None; nothing else is assigned yet
InitSession ==
    /\ velocity_convention = init_velocity_convention(xarr_given.velocity_convention)
    /\ fittype = None
    /\ fiteach_args = None
    /\ guess_grid = None
    /\ hist = <<>>
    /\ model_grid = None
    /\ mask_signal = None /\ mask_noise = None
    /\ signal_map = None /\ rms_map = None /\ snr_map = None
    /\ best_map = None /\ best_rmsmap = None /\ best_guesses = None
    /\ best_model = None /\ best_guess_attr = None /\ best_snr_guess = None
    /\ last = Call("__init__", None, None, "none", {})

\* the fitters of pyspeckit's registry that the model knows
Registry == {"gaussian", "lorentzian"}

update_model(fit_type) ==
    /\ IF fit_type \in Registry
       THEN /\ fittype' = Some(fit_type)
            /\ last' = Call("update_model", [fit_type |-> fit_type], None, "none",
                            {"info: selected model"})
       ELSE /\ fittype' = fittype
            /\ last' = Call("update_model", [fit_type |-> fit_type], None,
                            "ValueError", {})
    /\ UNCHANGED <<envvars, fiteach_args, guess_grid, hist, synvars, snrvars, selvars>>

\* the keys of self.fiteach_args after make_guess_grid
fiteach_keys(ft) ==
    IF ft = Some("gaussian")
    THEN {"limitedmin", "limitedmax", "minpars", "maxpars"}
    ELSE {"fixed", "limitedmin", "limitedmax", "minpars", "maxpars"}

\* a = [minpars, maxpars, finesse, clip_edges]; minpars and maxpars as given
make_guess_grid(a) ==
    LET minpars == asarray(a.minpars)
        maxpars == asarray(a.maxpars)
        allkeys == {"fixed", "limitedmin", "limitedmax", "minpars", "maxpars"}
        grid    == _grid_parspace(minpars, maxpars, a.finesse, a.clip_edges)
    IN  /\ IF IsNone(fittype)
           THEN \* self.fittype does not exist: AttributeError at the gaussian test,
                \* after self.fiteach_args was assigned
                /\ fiteach_args' = Some([keys |-> allkeys, minpars |-> minpars,
                                         maxpars |-> maxpars])
                /\ UNCHANGED <<guess_grid, hist>>
                /\ last' = Call("make_guess_grid", a, None, "AttributeError", {})
           ELSE /\ fiteach_args' = Some([keys |-> fiteach_keys(fittype),
                                         minpars |-> minpars, maxpars |-> maxpars])
                /\ guess_grid' = Some(grid)
                /\ hist' = <<a>>
                /\ last' = Call("make_guess_grid", a, Some(grid), "none",
                                bounds_error_logged(minpars, maxpars)
                                \cup {"info: binning the parameter space"})
        /\ UNCHANGED <<envvars, fittype, synvars, snrvars, selvars>>

\* a slip in the concatenation order: the new sub-grid goes in front
append_rows_front(old, new) == new \o old

\* np.append(self.guess_grid, guess_grid, axis=0)
append_rows(old, new) == old \o new

\* a slip in the widening: the new bounds replace the recorded ones
widen_overwrite(old_min, old_max, new_min, new_max) ==
    [minpars |-> new_min, maxpars |-> new_max]

\* np.vstack([old, new]).min(axis=0) and .max(axis=0)
widen(old_min, old_max, new_min, new_max) ==
    [minpars |-> [i \in 1..Len(old_min) |-> Min2(old_min[i], new_min[i])],
     maxpars |-> [i \in 1..Len(old_max) |-> Max2(old_max[i], new_max[i])]]

expand_guess_grid(a) ==
    LET minpars == asarray(a.minpars)
        maxpars == asarray(a.maxpars)
        grid    == _grid_parspace(minpars, maxpars, a.finesse, a.clip_edges)
        log     == bounds_error_logged(minpars, maxpars)
                   \cup {"info: binning the parameter space"}
    IN  /\ Len(hist) <= MaxExpand
        /\ IF IsNone(fiteach_args)
           THEN \* self.fiteach_args does not exist: AttributeError
                /\ UNCHANGED <<fiteach_args, guess_grid, hist>>
                /\ last' = Call("expand_guess_grid", a, None, "AttributeError", log)
           ELSE LET old == Get(fiteach_args)
                    w   == widen(old.minpars, old.maxpars, minpars, maxpars)
                IN  /\ fiteach_args' = Some([old EXCEPT !.minpars = w.minpars,
                                                        !.maxpars = w.maxpars])
                    /\ IF IsNone(guess_grid)
                       THEN \* np.append(None, grid, axis=0): ValueError, after
                            \* the recorded bounds were widened
                            /\ UNCHANGED <<guess_grid, hist>>
                            /\ last' = Call("expand_guess_grid", a, None,
                                            "ValueError", log)
                       ELSE /\ guess_grid' = Some(append_rows(Get(guess_grid), grid))
                            /\ hist' = Append(hist, a)
                            /\ last' = Call("expand_guess_grid", a, guess_grid',
                                            "none", log)
        /\ UNCHANGED <<envvars, fittype, synvars, snrvars, selvars>>

(***************************************************************************)
(* Model synthesizer: SubCube.generate_model                               *)
(***************************************************************************)
RECURSIVE Power(_, _)
Power(b, e) == IF e = 0 THEN 1 ELSE b * Power(b, e - 1)

\* specfit.get_full_model(pars=...): the model evaluation of the fitting
\* library, outside this repository.  It stands here as a polynomial in the
\* channel position whose coefficients are the parameters: deterministic,
\* different for different parameters, and with a pure offset as parameter 0.
get_full_model(pars) ==
    [c \in 1..NChan |->
        SeqSum([i \in 1..Len(pars) |-> pars[i] * Power(c - 1, i - 1)])]

\* the fitter's npars; self.specfit.fitter is unset until update_model
fitter_npars == NPars

\* a guess grid handed to the synthesizer: its numpy shape and its parameter
\* vectors in C order
AsGuessArray(rows) == [shape |-> <<Len(rows), Len(rows[1])>>, rows |-> rows]

\* spectrum i is synthesized from parameter vector i
synthesize(rows) == [k \in 1..Len(rows) |-> get_full_model(rows[k])]

\* np.save(to_file, ...) appends ".npy" to a name that lacks it
npy_save_name(to_file) == IF to_file = "models" THEN "models.npy" ELSE to_file

\* the shape test of generate_model on guess_grid.shape, after np.atleast_2d
invalid_guess_shape(shape) ==
    LET grid_shape == SubSeq(shape, 1, Len(shape) - 1)
        n          == Len(grid_shape)
    IN  \/ n > 1 /\ SubSeq(grid_shape, n - 1, n) # <<NY, NX>>
        \/ n > 3
        \/ shape[Len(shape)] % fitter_npars # 0

\* g = [guess_grid, to_file, redo]: guess_grid None or Some(array),
\* to_file None or Some(name)
generate_model(g) ==
    LET given == IF IsSome(g.guess_grid) THEN g.guess_grid
                 ELSE IF IsSome(guess_grid) THEN Some(AsGuessArray(Get(guess_grid)))
                 ELSE None
        \* np.atleast_2d(None) is a (1, 1) object array
        shape == IF IsSome(given) THEN Get(given).shape ELSE <<1, 1>>
        call(err, log) == Call("generate_model", g, None, err, log)
    IN  /\ IF ~g.redo /\ IsNone(g.to_file)
           THEN \* os.path.isfile(None)
                /\ UNCHANGED synvars
                /\ last' = call("TypeError", {})
           ELSE IF ~g.redo /\ IsSome(files[Get(g.to_file)])
           THEN /\ UNCHANGED synvars
                /\ last' = call("none", {"info: model file in place, skipping"})
           ELSE IF IsNone(fittype)
           THEN \* self.specfit.fitter.npars
                /\ UNCHANGED synvars
                /\ last' = call("AttributeError", {})
           ELSE IF invalid_guess_shape(shape)
           THEN /\ UNCHANGED synvars
                /\ last' = call("ValueError", {})
           ELSE LET grid_shape == SubSeq(shape, 1, Len(shape) - 1)
                    made == [shape |-> grid_shape \o <<NChan>>,
                             rows  |-> synthesize(Get(given).rows)]
                IN  /\ IF IsSome(g.to_file)
                       THEN /\ files' = [files EXCEPT
                                            ![npy_save_name(Get(g.to_file))] = Some(made)]
                            /\ UNCHANGED model_grid
                       ELSE /\ model_grid' = Some([shape  |-> made.shape,
                                                   rows   |-> made.rows,
                                                   memmap |-> FALSE])
                            /\ UNCHANGED files
                    /\ last' = call("none", {"info: generating spectral models"})
        /\ UNCHANGED <<envvars, gridvars, snrvars, selvars>>

(***************************************************************************)
(* The cube.  A session is constructed on one cube of a small family: the  *)
(* spectrum of pixel (y, x) is a parabola in the channel position with a   *)
(* line at the central channel; the seed decides the slope and the line    *)
(* strength of each pixel.  Every flux is a whole number (a multiple of    *)
(* Scale).                                                                 *)
(***************************************************************************)
Channels == 1..NChan
Rows     == 1..NY
Cols     == 1..NX
MidChan  == (NChan + 1) \div 2

CubeSlopes == <<Scale, 0, 2 * Scale, -2 * Scale>>
CubeSlope(seed, y, x) == CubeSlopes[((seed * y + x) % 4) + 1]
CubePeak(seed, y, x)  == 4 * ((seed + y + 2 * x) % 3) * Scale

CubeOf(seed) ==
    [c \in Channels |-> [y \in Rows |-> [x \in Cols |->
        CubeSlope(seed, y, x) * (c - 1) + Scale * (c - 1) * (c - 1)
        + (IF c = MidChan THEN CubePeak(seed, y, x) ELSE 0)]]]

FileNames == {"models", "models.npy"}

(***************************************************************************)
(* Signal / noise estimator: SubCube.get_snr_map with its default          *)
(* arguments (rule of thirds, channel numbers in pixels)                   *)
(***************************************************************************)
\* int(round(xarr.size * 0.33)) and int(round(xarr.size * (1 - 0.33)))
default_i_low(size)  == (33 * size + 50) \div 100
default_i_high(size) == (67 * size + 50) \div 100

\* get_mask on pixel units: mask[index_low:index_high] = True for every
\* (low, high) pair, each pair sorted first; channel c of the model is
\* index c - 1 of the source
get_mask(low_indices, high_indices) ==
    [c \in Channels |->
        \E k \in 1..Min2(Len(low_indices), Len(high_indices)) :
            LET index_low  == Min2(low_indices[k], high_indices[k])
                index_high == Max2(low_indices[k], high_indices[k])
            IN  index_low <= c - 1 /\ c - 1 < index_high]

MaskChannels(mask) == {c \in Channels : mask[c]}

RECURSIVE SetSum(_, _)
SetSum(S, f) ==
    IF S = {} THEN 0
    ELSE LET c == CHOOSE c \in S : TRUE IN f[c] + SetSum(S \ {c}, f)

\* cube[signal_mask,:,:].max(axis=0)
get_signal_map(signal_mask) ==
    [y \in Rows |-> [x \in Cols |->
        LET chans == MaskChannels(signal_mask)
        IN  cube[CHOOSE c \in chans : \A d \in chans : cube[d][y][x] <= cube[c][y][x]][y][x]]]

\* cube[noise_mask,:,:].std(axis=0): the standard deviation over n channels
\* is sqrt(n * sum(v^2) - sum(v)^2) / n; the map keeps n and the radicand
get_rms_map(noise_mask) ==
    [y \in Rows |-> [x \in Cols |->
        LET chans == MaskChannels(noise_mask)
            n     == Cardinality(chans)
            s1    == SetSum(chans, [c \in Channels |-> cube[c][y][x]])
            s2    == SetSum(chans, [c \in Channels |-> cube[c][y][x] * cube[c][y][x]])
        IN  [n |-> n, radicand |-> n * s2 - s1 * s1]]]

\* signal / rms: the ratio num / sqrt(den2), a pure number, so the
\* fixed-point unit is divided out (exactly: the fluxes are whole numbers).
\* den2 = 0 is a division by zero: +inf or -inf by the sign of num, and nan
\* when num = 0.
snr_divide(signal, rms) ==
    [y \in Rows |-> [x \in Cols |->
        [num  |-> (signal[y][x] * rms[y][x].n) \div Scale,
         den2 |-> rms[y][x].radicand \div (Scale * Scale)]]]

SnrIsNan(a) == a.num = 0 /\ a.den2 = 0

\* a > cut for a positive cut (nan compares false, +inf true):
\* num / sqrt(den2) > cut  iff  num > 0 and den2 * cut * cut < num * num
snr_greater(a, cut) ==
    /\ a.num > 0
    /\ \/ a.den2 = 0
       \/ a.den2 <= ((a.num * a.num - 1) \div cut) \div cut

\* a < b for two ratios, neither nan
snr_less(a, b) ==
    IF a.num < 0 /\ b.num >= 0 THEN TRUE
    ELSE IF a.num >= 0 /\ b.num < 0 THEN FALSE
    ELSE IF a.num >= 0
    THEN IF b.den2 = 0 THEN b.num > 0 /\ (a.den2 > 0 \/ a.num = 0)
         ELSE a.den2 > 0 /\ a.num * a.num * b.den2 < b.num * b.num * a.den2
    ELSE IF a.den2 = 0 THEN b.den2 > 0
         ELSE b.den2 > 0 /\ a.num * a.num * b.den2 > b.num * b.num * a.den2

get_snr_map ==
    LET i_low       == default_i_low(NChan)
        i_high      == default_i_high(NChan)
        signal_mask == get_mask(<<i_low + 1>>, <<i_high - 1>>)
        noise_mask  == get_mask(<<0, i_high>>, <<i_low, NChan - 1>>)
    IN  /\ mask_signal' = Some(signal_mask)
        /\ mask_noise' = Some(noise_mask)
        /\ IF MaskChannels(signal_mask) = {}
           THEN \* max of a zero-size array
                /\ UNCHANGED <<signal_map, rms_map, snr_map>>
                /\ last' = Call("get_snr_map", None, None, "ValueError", {})
           ELSE LET signal == get_signal_map(signal_mask)
                    rms    == get_rms_map(noise_mask)
                    snr    == snr_divide(signal, rms)
                IN  /\ signal_map' = Some(signal)
                    /\ rms_map' = Some(rms)
                    /\ snr_map' = Some(snr)
                    /\ last' = Call("get_snr_map", None, Some(snr), "none", {})
        /\ UNCHANGED <<envvars, gridvars, synvars, selvars>>

\* the units get_mask takes for channel numbers
PixelUnits == {"pix", "pixel", "pixels", "chan", "channel", "channels"}

\* the guidance get_mask appends to a UnitConversionError
UnitGuidance == "error: consider setting xarr.velocity_convention and xarr.refX"

\* whether self.xarr.convert_to_unit("km/s") can be done: an axis in velocity
\* needs no conversion, an axis in frequency needs a velocity convention and
\* a rest frequency
can_convert ==
    xarr_given.unit = "km/s" \/ (IsSome(velocity_convention) /\ xarr_given.refX)

\* self.xarr in km/s at source index i: channels are ChanWidth apart, and an
\* axis that rises in frequency falls in velocity
xarr_velocity(i) ==
    IF xarr_given.unit = "km/s" THEN i * ChanWidth
    ELSE (NChan - 1 - i) * ChanWidth

AbsDiff(a, b) == IF a < b THEN b - a ELSE a - b

\* self.xarr.x_to_pix(v): the index of the channel nearest to v, the first
\* among equally near ones
x_to_pix(v) ==
    CHOOSE i \in 0..(NChan - 1) :
        /\ \A j \in 0..(NChan - 1) :
              AbsDiff(xarr_velocity(i), v) <= AbsDiff(xarr_velocity(j), v)
        /\ \A j \in 0..(i - 1) :
              AbsDiff(xarr_velocity(j), v) > AbsDiff(xarr_velocity(i), v)

\* SubCube.get_mask called with a = [low_indices, high_indices, unit]: ends
\* given in a physical unit are converted to channel indices first
get_mask_unit(a) ==
    LET n        == Min2(Len(a.low_indices), Len(a.high_indices))
        physical == a.unit \notin PixelUnits
        index(v) == IF physical THEN x_to_pix(v) ELSE v
        lows     == [k \in 1..n |-> index(a.low_indices[k])]
        highs    == [k \in 1..n |-> index(a.high_indices[k])]
    IN  /\ IF physical /\ n > 0 /\ ~can_convert
           THEN last' = Call("get_mask", a, None, "UnitConversionError",
                             {UnitGuidance})
           ELSE last' = Call("get_mask", a, Some(get_mask(lows, highs)),
                             "none", {})
        /\ UNCHANGED <<envvars, gridvars, synvars, snrvars, selvars>>

(***************************************************************************)
(* Best-guess selector: SubCube.best_guess                                 *)
(***************************************************************************)
\* (spectrum - model).std() over the channels of pixel (y, x); see the
\* header for the representation
std_residual(y, x, model) ==
    LET s1 == SeqSum([c \in Channels |-> cube[c][y][x] - model[c]])
        s2 == SeqSum([c \in Channels |->
                        (cube[c][y][x] - model[c]) * (cube[c][y][x] - model[c])])
    IN  NChan * s2 - s1 * s1

\* (cube[None,:,:,:] - model_grid[:,:,None,None]).std(axis=1)
residual_broadcast(rows) ==
    [g \in 1..Len(rows) |-> [y \in Rows |-> [x \in Cols |->
        std_residual(y, x, rows[g])]]]

\* residual_rms[:,y,x] = (cube[None,:,y,x] - model_grid).std(axis=1), pixel by pixel
residual_per_pixel(rows) ==
    LET column == [y \in Rows |-> [x \in Cols |->
                     [g \in 1..Len(rows) |-> std_residual(y, x, rows[g])]]]
    IN  [g \in 1..Len(rows) |-> [y \in Rows |-> [x \in Cols |-> column[y][x][g]]]]

\* np.repeat([mask2d], xarr.size, axis=0): one copy of the map per channel
get_slice_mask(mask2d) == [c \in Channels |-> mask2d]

\* residual_rms[mask3d] = np.inf, where mask3d has NChan planes and
\* residual_rms has G.  A numpy that checks the shape of a boolean index
\* (strict) raises IndexError unless G = NChan; an older one indexes by the
\* positions of the True entries and raises only when one is out of range.
\* None stands for the IndexError.
mask_residual(residual, mask3d, strict) ==
    LET G == Len(residual)
    IN  IF strict /\ G # NChan THEN None
        ELSE IF \E c \in Channels, y \in Rows, x \in Cols : mask3d[c][y][x] /\ c > G
        THEN None
        ELSE Some([g \in 1..G |-> [y \in Rows |-> [x \in Cols |->
                 IF g <= NChan /\ mask3d[g][y][x] THEN Inf ELSE residual[g][y][x]]]])

\* np.argmin(residual_rms, axis=0): the first index of the minimum, from 0
argmin_axis0(residual) ==
    [y \in Rows |-> [x \in Cols |->
        (CHOOSE g \in 1..Len(residual) :
            /\ \A h \in 1..Len(residual) : residual[g][y][x] <= residual[h][y][x]
            /\ \A h \in 1..(g - 1) : residual[h][y][x] > residual[g][y][x]) - 1]]

\* residual_rms.min(axis=0)
min_axis0(residual) ==
    [y \in Rows |-> [x \in Cols |->
        LET g == CHOOSE g \in 1..Len(residual) :
                    \A h \in 1..Len(residual) : residual[g][y][x] <= residual[h][y][x]
        IN  residual[g][y][x]]]

\* scipy.stats.mode(best_map), axis 0: for every column x the most frequent
\* value down the rows (the smallest one among equally frequent values) and
\* its count
mode(a) ==
    LET rows        == DOMAIN a
        cols        == DOMAIN a[1]
        count(x, v) == Cardinality({y \in rows : a[y][x] = v})
        vals(x)     == {a[y][x] : y \in rows}
        pick(x)     == CHOOSE v \in vals(x) :
                          \A w \in vals(x) :
                              \/ count(x, w) < count(x, v)
                              \/ count(x, w) = count(x, v) /\ v <= w
    IN  <<[x \in cols |-> pick(x)], [x \in cols |-> count(x, pick(x))]>>

\* best_model_frac < .05 for best_model_frac = best_model_freq / npix, npix
\* the number of pixels of the map
low_best_model_frac(freq, npix) == freq * 20 < npix

\* np.unravel_index(np.argmax(snr_map), snr_map.shape): the first maximum in
\* C order; a nan counts as the maximum
argmax_snr(snr) ==
    LET flat(k) == snr[((k - 1) \div NX) + 1][((k - 1) % NX) + 1]
        N       == NY * NX
        top(k)  == IF \E j \in 1..N : SnrIsNan(flat(j))
                   THEN SnrIsNan(flat(k))
                   ELSE \A j \in 1..N : ~snr_less(flat(k), flat(j))
        k0      == CHOOSE k \in 1..N : top(k) /\ \A j \in 1..(k - 1) : ~top(j)
    IN  <<((k0 - 1) \div NX) + 1, ((k0 - 1) % NX) + 1>>

\* the free memory, in words.  b.env is the machine at the time of the
\* call: psutil importable or not, psutil's available memory, the "free"
\* column of "free -g" (None when that output cannot be parsed), and oom:
\* whether allocating the residual array of the tier entered runs out of
\* memory.
\* b.memory_limit is None or Some(k), k half-gigabytes.
available_memory(b) ==
    IF b.env.psutil THEN b.env.available
    ELSE LET memgb  == IF IsSome(b.env.free_g) THEN Get(b.env.free_g)
                       ELSE DefaultMemGB
             \* int(memory_limit or memgb)
             int_gb == IF IsSome(b.memory_limit) /\ Get(b.memory_limit) # 0
                       THEN Get(b.memory_limit) \div 2
                       ELSE memgb
         IN  int_gb * GiB

\* self.cube.nbytes * model_grid.shape[0] * 2
broadcast_threshold(G) == (NChan * NY * NX) * G * 2

slow_path_inclusive(mem, threshold) == mem <= threshold

\* the test that sends best_guess to the slower tiers
slow_path(mem, threshold) == mem < threshold

\* what one best_guess call leaves behind: the exception (or "none"), the
\* log, and the attributes it assigned (None: not assigned by this call)
Outcome(err, log, bm, rm, bgs, model, overall, at_snr) ==
    [err |-> err, log |-> log, best_map |-> bm, best_rmsmap |-> rm,
     best_guesses |-> bgs, best_model |-> model, best_guess |-> overall,
     best_snr_guess |-> at_snr]

Raised(err, log) == Outcome(err, log, None, None, None, None, None, None)

InfoResid  == "info: calculating residuals for generated models"
WarnSlow   == "warn: free memory might not be enough, iterating over XY pairs"
WarnNested == "warn: not enough memory to broadcast to the XY grid"
WarnFree   == "warn: can't get the free RAM size"
WarnFrac   == "warn: selected model is best for less than 5% of the cube"
WarnNoSnr  == "warn: can't find the SNR map"

cut_given(b) == IsSome(b.sn_cut) /\ Get(b.sn_cut) # 0

\* self.guess_grid[best_map]: a Y x X map of parameter vectors
index_rows(gg, bm) == [y \in Rows |-> [x \in Cols |-> gg[bm[y][x] + 1]]]

\* np.rollaxis(a, -1) on a Y x X x P array: the parameter axis comes first
rollaxis_last(a) ==
    [p \in 1..Len(a[1][1]) |-> [y \in Rows |-> [x \in Cols |-> a[y][x][p]]]]

\* best_guess from the SNR mask on: lines 366-397 of the source
select_best(b, residual_rms, log) ==
    IF cut_given(b) /\ IsNone(snr_map)
    THEN Raised("AttributeError", log)
    ELSE
    LET snr_mask == [y \in Rows |-> [x \in Cols |->
                        snr_greater(Get(snr_map)[y][x], Get(b.sn_cut))]]
        masked   == IF cut_given(b)
                    THEN mask_residual(residual_rms, get_slice_mask(snr_mask),
                                       strict_index)
                    ELSE Some(residual_rms)
    IN  IF IsNone(masked) THEN Raised("IndexError", log)
        ELSE
        LET bm == argmin_axis0(Get(masked))
            rm == min_axis0(Get(masked))
        IN  IF IsNone(guess_grid)
            THEN \* self.guess_grid[best_map] on None, after the maps were stored
                 Outcome("TypeError", log, Some(bm), Some(rm), None, None, None, None)
            ELSE IF \E y \in Rows, x \in Cols : bm[y][x] >= Len(Get(guess_grid))
            THEN Outcome("IndexError", log, Some(bm), Some(rm), None, None, None, None)
            ELSE
            LET gg              == Get(guess_grid)
                bgs             == rollaxis_last(index_rows(gg, bm))
                model_mode      == mode(bm)
                best_model_num  == model_mode[1][1]
                best_model_freq == model_mode[2][1]
                log2            == IF low_best_model_frac(best_model_freq, NY * NX)
                                   THEN log \cup {WarnFrac} ELSE log
                peak            == argmax_snr(Get(snr_map))
            IN  IF IsNone(snr_map)
                THEN Outcome("none", log2 \cup {WarnNoSnr}, Some(bm), Some(rm),
                             Some(bgs), Some(best_model_num),
                             Some(gg[best_model_num + 1]), None)
                ELSE Outcome("none", log2, Some(bm), Some(rm), Some(bgs),
                             Some(best_model_num), Some(gg[best_model_num + 1]),
                             Some(gg[bm[peak[1]][peak[2]] + 1]))

grid_shape_error_axes_first(shape) ==
    IF Len(shape) > 2 THEN "NotImplementedError"
    ELSE IF shape[Len(shape)] # NChan THEN "ValueError"
    ELSE "none"

\* the shape tests of best_guess on model_grid.shape: the channel count is
\* tested before the number of axes
grid_shape_error(shape) ==
    IF shape[Len(shape)] # NChan THEN "ValueError"
    ELSE IF Len(shape) > 2 THEN "NotImplementedError"
    ELSE "none"

\* b = [model_grid, sn_cut, memory_limit, from_file, mmap_mode, env]
best_guess_outcome(b) ==
    LET load == IF IsSome(files[Get(b.from_file)])
                THEN Some([shape  |-> Get(files[Get(b.from_file)]).shape,
                           rows   |-> Get(files[Get(b.from_file)]).rows,
                           memmap |-> b.mmap_mode])
                ELSE None
        given == IF IsSome(b.model_grid) THEN b.model_grid
                 ELSE IF IsSome(b.from_file) THEN load
                 ELSE model_grid
    IN  IF IsSome(best_guess_attr)
        THEN \* self.best_guess is the array an earlier call stored: not callable
             Raised("TypeError", {})
        ELSE IF IsNone(b.model_grid) /\ IsSome(b.from_file) /\ IsNone(load)
        THEN Raised("IOError", {})
        ELSE IF IsNone(given)
        THEN Raised("TypeError", {})
        ELSE
        LET grid      == Get(given)
            G         == grid.shape[1]
            mem       == available_memory(b)
            threshold == broadcast_threshold(G)
            log       == IF ~b.env.psutil /\ IsNone(b.env.free_g)
                         THEN {InfoResid, WarnFree} ELSE {InfoResid}
        IN  IF grid_shape_error(grid.shape) # "none"
            THEN Raised(grid_shape_error(grid.shape), {})
            ELSE IF slow_path(mem, threshold)
            THEN IF grid.memmap \/ b.env.oom
                 THEN \* a memory-mapped grid, or np.empty out of memory: the
                      \* nested tier fills best_map and rmsmin_map, local
                      \* names that the lines after it overwrite from
                      \* residual_rms, which this tier never binds
                      IF cut_given(b) /\ IsNone(snr_map)
                      THEN Raised("AttributeError", log \cup {WarnSlow, WarnNested})
                      ELSE Raised("UnboundLocalError", log \cup {WarnSlow, WarnNested})
                 ELSE select_best(b, residual_per_pixel(grid.rows),
                                  log \cup {WarnSlow})
            ELSE IF b.env.oom
            THEN \* the broadcast of line 362 stands outside the try block
                 Raised("MemoryError", log)
            ELSE select_best(b, residual_broadcast(grid.rows), log)

best_guess(b) ==
    LET o == best_guess_outcome(b)
        keep(new, old) == IF IsSome(new) THEN new ELSE old
    IN  /\ best_map' = keep(o.best_map, best_map)
        /\ best_rmsmap' = keep(o.best_rmsmap, best_rmsmap)
        /\ best_guesses' = keep(o.best_guesses, best_guesses)
        /\ best_model' = keep(o.best_model, best_model)
        /\ best_guess_attr' = keep(o.best_guess, best_guess_attr)
        /\ best_snr_guess' = keep(o.best_snr_guess, best_snr_guess)
        /\ last' = Call("best_guess", b, None, o.err, o.log)
        /\ UNCHANGED <<envvars, gridvars, synvars, snrvars>>

\* lines 371-384 of best_guess as a function of the best map alone, for a
\* map of any size: the map is stored, the overall best model is read off
\* scipy's mode and the low-confidence warning is logged or not
overall_best_model(bm) ==
    LET model_mode      == mode(bm)
        best_model_num  == model_mode[1][1]
        best_model_freq == model_mode[2][1]
        npix            == Len(bm) * Len(bm[1])
    IN  /\ best_map' = Some(bm)
        /\ best_model' = Some(best_model_num)
        /\ last' = Call("overall_best_model", [best_map |-> bm],
                        Some(<<best_model_num, best_model_freq>>), "none",
                        IF low_best_model_frac(best_model_freq, npix)
                        THEN {WarnFrac} ELSE {})
        /\ UNCHANGED <<envvars, gridvars, synvars, snrvars, best_rmsmap,
                       best_guesses, best_guess_attr, best_snr_guess>>

(***************************************************************************)
(* SpecGrid: the grid builder on its own, over every argument in bounds:   *)
(* a fresh session, update_model or not, then one make_guess_grid call.    *)
(***************************************************************************)
\* the bounds of one dimension, as (min, max): a proper interval, a
\* degenerate one (min = max) and an inverted one (min > max)
DimBounds == {<<-1, 2>>, <<2, 2>>, <<2, -1>>}

GridArgs ==
    UNION {
        { [minpars |-> [i \in 1..p |-> b[i][1]], maxpars |-> [i \in 1..p |-> b[i][2]],
           finesse |-> f, clip_edges |-> ce] :
            b \in [1..p -> DimBounds],
            f \in [1..1 -> 1..MaxFinesse] \cup [1..p -> 1..MaxFinesse],
            ce \in BOOLEAN }
        : p \in 1..MaxNPars }

InitGrid ==
    /\ xarr_given = VelocityAxis
    /\ InitSession
    /\ cube = CubeOf(0)
    /\ strict_index = TRUE
    /\ files = [n \in FileNames |-> None]

\* one grid-builder call per session: update_model or not, then make_guess_grid
NextGrid ==
    \/ IsNone(fiteach_args) /\ update_model("gaussian")
    \/ IsNone(fiteach_args) /\ \E a \in GridArgs : make_guess_grid(a)

SpecGrid == InitGrid /\ [][NextGrid]_vars

(***************************************************************************)
(* Spec: the grid-management session.  update_model, make_guess_grid,      *)
(* expand_guess_grid and generate_model in any order, over a few ranges.   *)
(***************************************************************************)
RangeA == [minpars |-> <<0, 0, 0>>, maxpars |-> <<2, 3, 1>>,
           finesse |-> <<1, 2, 1>>, clip_edges |-> TRUE]
RangeB == [minpars |-> <<-1, 1, 0>>, maxpars |-> <<1, 2, 2>>,
           finesse |-> <<2, 2, 1>>, clip_edges |-> TRUE]
RangeC == [minpars |-> <<1, -2, 1>>, maxpars |-> <<4, 0, 1>>,
           finesse |-> <<1>>, clip_edges |-> FALSE]
MakeArgs   == {RangeA, RangeB}
ExpandArgs == {RangeB, RangeC}

\* guess grids a caller hands to generate_model: one parameter vector, a
\* spatial grid of the cube's size, a spatial grid of another size, and a
\* matrix whose rows are too short for the model
VectorGuess  == [shape |-> <<1, NPars>>, rows |-> <<asarray(<<1, 1, 1>>)>>]
SpatialGuess == [shape |-> <<NY, NX, NPars>>,
                 rows  |-> [k \in 1..(NY * NX) |-> asarray(<<k, 1, 0>>)]]
SpatialOther == [shape |-> <<NY + 1, NX, NPars>>,
                 rows  |-> [k \in 1..((NY + 1) * NX) |-> asarray(<<k, 1, 0>>)]]
ShortGuess   == [shape |-> <<2, NPars - 1>>,
                 rows  |-> <<asarray(<<1, 1>>), asarray(<<2, 1>>)>>]

SessGen ==
    { [guess_grid |-> gg, to_file |-> None, redo |-> TRUE] :
        gg \in {None, Some(VectorGuess), Some(SpatialGuess)} }

Init ==
    /\ xarr_given = VelocityAxis
    /\ InitSession
    /\ cube = CubeOf(0)
    /\ strict_index = TRUE
    /\ files = [n \in FileNames |-> None]

Next ==
    \/ update_model("gaussian")
    \/ \E a \in MakeArgs : make_guess_grid(a)
    \/ \E a \in ExpandArgs : expand_guess_grid(a)
    \/ \E g \in SessGen : generate_model(g)

Spec == Init /\ [][Next]_vars

(***************************************************************************)
(* SpecSel: the selection session.  On a cube of the family and either     *)
(* numpy, the session picks the model, builds a guess grid (RangeB, then   *)
(* expanded by RangeC), synthesizes the model grid in memory and / or to a *)
(* file, estimates the signal-to-noise map, and calls best_guess once,     *)
(* at any point of that preparation.                                       *)
(***************************************************************************)
\* the machine: psutil reporting exactly what broadcasting against RangeB's
\* grid needs, or no psutil and "free -g" unparsable or reporting 0 GB
SelEnvs ==
    { [psutil |-> TRUE, available |-> broadcast_threshold(SeqProd(RangeB.finesse)),
       free_g |-> None, oom |-> FALSE],
      [psutil |-> FALSE, available |-> 0, free_g |-> None, oom |-> FALSE],
      [psutil |-> FALSE, available |-> 0, free_g |-> Some(0), oom |-> FALSE] }

\* no cut, a cut some pixels pass, and a cut no pixel passes
SelCuts == {None, Some(2), Some(1000000)}

\* no limit, and half a gigabyte
SelLimits == {None, Some(1)}

\* the model grid of the session, or the saved one, under the name it was
\* saved as or the name it has on disk, memory-mapped or not
SelSources ==
    { [from_file |-> None, mmap_mode |-> FALSE],
      [from_file |-> Some("models"), mmap_mode |-> FALSE],
      [from_file |-> Some("models.npy"), mmap_mode |-> FALSE],
      [from_file |-> Some("models.npy"), mmap_mode |-> TRUE] }

SelArgs ==
    { [model_grid |-> None, sn_cut |-> c, memory_limit |-> m,
       from_file |-> s.from_file, mmap_mode |-> s.mmap_mode, env |-> e] :
        c \in SelCuts, m \in SelLimits, s \in SelSources, e \in SelEnvs }

SelGenInMemory == [guess_grid |-> None, to_file |-> None, redo |-> TRUE]
SelGenToFile   == [guess_grid |-> None, to_file |-> Some("models"), redo |-> TRUE]

InitSel ==
    /\ xarr_given = VelocityAxis
    /\ InitSession
    /\ cube \in {CubeOf(seed) : seed \in 0..MaxSeed}
    /\ strict_index \in BOOLEAN
    /\ files = [n \in FileNames |-> None]

Preparing == last.op # "best_guess"
Generated == IsSome(model_grid) \/ IsSome(files["models.npy"])

NextSel ==
    \/ Preparing /\ IsNone(fittype) /\ update_model("gaussian")
    \/ Preparing /\ IsSome(fittype) /\ IsNone(guess_grid) /\ make_guess_grid(RangeB)
    \/ Preparing /\ IsSome(guess_grid) /\ ~Generated /\ expand_guess_grid(RangeC)
    \/ Preparing /\ IsSome(guess_grid) /\ IsNone(model_grid)
                 /\ generate_model(SelGenInMemory)
    \/ Preparing /\ IsSome(guess_grid) /\ IsNone(files["models.npy"])
                 /\ generate_model(SelGenToFile)
    \/ Preparing /\ IsNone(mask_signal) /\ get_snr_map
    \/ Preparing /\ \E b \in SelArgs : best_guess(b)

SpecSel == InitSel /\ [][NextSel]_vars

(***************************************************************************)
(* SpecEdge: best_guess at the edges.  On one cube, the session prepares   *)
(* in any order (model, guess grid A or B, again if it likes, the model    *)
(* grid in memory, the signal-to-noise map), then calls best_guess on its  *)
(* own model grid or on one the caller supplies, with or without running   *)
(* out of memory, and calls it once more with no argument.                 *)
(***************************************************************************)
\* model grids a caller hands to best_guess: one of another channel count,
\* cube-like ones (one spectrum per pixel) of the cube's channel count and of
\* another, and one with more spectra than either guess grid has entries
WrongChanGrid ==
    [shape |-> <<2, NChan + 1>>, memmap |-> FALSE,
     rows  |-> [k \in 1..2 |-> [c \in 1..(NChan + 1) |-> k * Scale]]]
CubeLikeGrid ==
    [shape |-> <<NY, NX, NChan>>, memmap |-> FALSE,
     rows  |-> [k \in 1..(NY * NX) |-> [c \in 1..NChan |-> k * Scale]]]
CubeLikeWrongChan ==
    [shape |-> <<NY, NX, NChan + 1>>, memmap |-> FALSE,
     rows  |-> [k \in 1..(NY * NX) |-> [c \in 1..(NChan + 1) |-> k * Scale]]]
LongGrid ==
    LET rows == _grid_parspace(asarray(RangeB.minpars), asarray(RangeB.maxpars),
                               RangeB.finesse, RangeB.clip_edges)
                \o _grid_parspace(asarray(RangeC.minpars), asarray(RangeC.maxpars),
                                  RangeC.finesse, RangeC.clip_edges)
    IN  [shape |-> <<Len(rows), NChan>>, memmap |-> FALSE, rows |-> synthesize(rows)]

EdgeGrids ==
    {None, Some(WrongChanGrid), Some(CubeLikeGrid), Some(CubeLikeWrongChan),
     Some(LongGrid)}

\* a machine without psutil whose "free -g" cannot be parsed (8 GB assumed),
\* where the residual array fits or does not fit
EdgeEnvs ==
    { [psutil |-> FALSE, available |-> 0, free_g |-> None, oom |-> o] :
        o \in BOOLEAN }

EdgeArgs ==
    { [model_grid |-> g, sn_cut |-> c, memory_limit |-> None,
       from_file |-> None, mmap_mode |-> FALSE, env |-> e] :
        g \in EdgeGrids, c \in {None, Some(2)}, e \in EdgeEnvs }

\* best_guess() with no argument, on a machine with room
EdgeRetry ==
    [model_grid |-> None, sn_cut |-> None, memory_limit |-> None,
     from_file |-> None, mmap_mode |-> FALSE,
     env |-> [psutil |-> FALSE, available |-> 0, free_g |-> None, oom |-> FALSE]]

InitEdge ==
    /\ xarr_given = VelocityAxis
    /\ InitSession
    /\ cube = CubeOf(1)
    /\ strict_index \in BOOLEAN
    /\ files = [n \in FileNames |-> None]

NextEdge ==
    \/ Preparing /\ IsNone(fittype) /\ update_model("gaussian")
    \/ Preparing /\ \E a \in MakeArgs : make_guess_grid(a)
    \/ Preparing /\ generate_model(SelGenInMemory)
    \/ Preparing /\ IsNone(mask_signal) /\ get_snr_map
    \/ Preparing /\ \E b \in EdgeArgs : best_guess(b)
    \/ ~Preparing /\ best_guess(EdgeRetry)

SpecEdge == InitEdge /\ [][NextEdge]_vars

(***************************************************************************)
(* SpecGen: the synthesizer over its arguments.  The session picks the     *)
(* model and builds a guess grid (RangeA or RangeB) or not, and calls      *)
(* generate_model with or without a guess grid of its own, with or without *)
(* a file name, forced or not.                                             *)
(***************************************************************************)
GenGrids ==
    {None, Some(VectorGuess), Some(SpatialGuess), Some(SpatialOther),
     Some(ShortGuess)}

GenFiles == {None, Some("models"), Some("models.npy")}

GenArgs ==
    { [guess_grid |-> gg, to_file |-> f, redo |-> r] :
        gg \in GenGrids, f \in GenFiles, r \in BOOLEAN }

InitGen ==
    /\ xarr_given = VelocityAxis
    /\ InitSession
    /\ cube = CubeOf(0)
    /\ strict_index = TRUE
    /\ files = [n \in FileNames |-> None]

NextGen ==
    \/ IsNone(fittype) /\ update_model("gaussian")
    \/ \E a \in MakeArgs : make_guess_grid(a)
    \/ \E g \in GenArgs : generate_model(g)

SpecGen == InitGen /\ [][NextGen]_vars

(***************************************************************************)
(* SpecMode: the overall best model over best maps of other sizes.  The    *)
(* maps are those of cubes of 1 to MaxMapRows rows and of 1, NX, 20 or     *)
(* MaxWide columns, in which the best model index runs along the rows and  *)
(* the columns in steps, modulo a number of models, or is different at     *)
(* every pixel.                                                            *)
(***************************************************************************)
MapWidths == {1, NX, 20, MaxWide}

StepMap(r, c, a, b, m) ==
    [y \in 1..r |-> [x \in 1..c |-> (a * (y - 1) + b * (x - 1)) % m]]

DistinctMap(r, c) == [y \in 1..r |-> [x \in 1..c |-> (y - 1) * c + (x - 1)]]

ModeMaps ==
    { StepMap(r, c, a, b, m) :
        r \in 1..MaxMapRows, c \in MapWidths, a \in 0..MaxStep, b \in 0..MaxStep,
        m \in 1..MaxModels }
    \cup { DistinctMap(r, c) : r \in 1..MaxMapRows, c \in MapWidths }

InitMode ==
    /\ xarr_given = VelocityAxis
    /\ InitSession
    /\ cube = CubeOf(0)
    /\ strict_index = TRUE
    /\ files = [n \in FileNames |-> None]

NextMode == \E bm \in ModeMaps : overall_best_model(bm)

SpecMode == InitMode /\ [][NextMode]_vars

(***************************************************************************)
(* SpecUnit: get_mask over its units.  The cube comes with a spectral axis *)
(* in frequency or in velocity, with or without a velocity convention and  *)
(* a rest frequency, and get_mask is called with one range given in km/s   *)
(* or in channel numbers.                                                  *)
(***************************************************************************)
Axes ==
    { [unit |-> un, velocity_convention |-> vc, refX |-> rf] :
        un \in {"Hz", "km/s"}, vc \in {None, Some("radio")}, rf \in BOOLEAN }

MaskEnds == {0, ChanWidth, (NChan - 1) * ChanWidth}

MaskArgs ==
    { [low_indices |-> <<lo>>, high_indices |-> <<hi>>, unit |-> un] :
        lo \in MaskEnds, hi \in MaskEnds, un \in {"km/s", "pixel"} }

InitUnit ==
    /\ xarr_given \in Axes
    /\ InitSession
    /\ cube = CubeOf(0)
    /\ strict_index = TRUE
    /\ files = [n \in FileNames |-> None]

NextUnit == \E a \in MaskArgs : get_mask_unit(a)

SpecUnit == InitUnit /\ [][NextUnit]_vars

(***************************************************************************)
(* Claims about the grid builder (SpecGrid)                                *)
(***************************************************************************)
\* the last call was make_guess_grid and it returned a grid
MadeGrid == last.op = "make_guess_grid" /\ last.err = "none"

LastMin == asarray(last.args.minpars)
LastMax == asarray(last.args.maxpars)
LastFin == conform_finesse(last.args.finesse, Len(last.args.minpars))
LastGrid == Get(last.ret)

ValidBounds == \A i \in 1..Len(LastMin) : LastMin[i] <= LastMax[i]

\* C5 as stated: with minpars <= maxpars (equal bounds included) and clip_edges,
\* make_guess_grid returns prod(finesse) vectors, every component strictly
\* between its bounds.
C5_StrictlyInside ==
    (MadeGrid /\ last.args.clip_edges /\ ValidBounds) =>
        LET grid == LastGrid
            mn   == LastMin
            mx   == LastMax
        IN  /\ Len(grid) = SeqProd(LastFin)
            /\ \A k \in 1..Len(grid) : \A i \in 1..Len(mn) :
                  mn[i] < grid[k][i] /\ grid[k][i] < mx[i]

\* C5 amended: with minpars <= maxpars and clip_edges, make_guess_grid returns
\* prod(finesse) vectors; component i lies strictly between its bounds when
\* minpars[i] < maxpars[i] and equals the common bound when they are equal.
C5_InsideOrDegenerate ==
    (MadeGrid /\ last.args.clip_edges /\ ValidBounds) =>
        LET grid == LastGrid
            mn   == LastMin
            mx   == LastMax
        IN  /\ Len(grid) = SeqProd(LastFin)
            /\ guess_grid = Some(grid)
            /\ \A k \in 1..Len(grid) : \A i \in 1..Len(mn) :
                  IF mn[i] < mx[i]
                  THEN mn[i] < grid[k][i] /\ grid[k][i] < mx[i]
                  ELSE grid[k][i] = mn[i]

\* a clipped grid with per-dimension finesse, one degenerate dimension and
\* one proper dimension cut into several cells
C5_Witness ==
    /\ MadeGrid /\ last.args.clip_edges /\ ValidBounds
    /\ Len(LastMin) >= 2
    /\ Len(last.args.finesse) = Len(LastMin)
    /\ \E i \in 1..Len(LastMin) : LastMin[i] = LastMax[i] /\ LastFin[i] >= 2
    /\ \E i \in 1..Len(LastMin) : LastMin[i] < LastMax[i] /\ LastFin[i] >= 2

\* the per-dimension point lists of the last call
LastSlices ==
    [i \in 1..Len(LastMin) |->
        par_slice_1d(LastMin[i], LastMax[i], LastFin[i], last.args.clip_edges)]

\* entry k (from 1) of the product of the lists, when dimension i advances
\* every stride[i] entries
ProductEntry(slices, stride, k) ==
    [i \in 1..Len(slices) |->
        slices[i][(((k - 1) \div stride[i]) % Len(slices[i])) + 1]]

\* dimension 0 slowest, the last dimension fastest
RowMajorStride(lens) ==
    [i \in 1..Len(lens) |-> SeqProd(SubSeq(lens, i + 1, Len(lens)))]

\* dimension 1 slowest, then dimension 0, then dimensions 2.. with the last fastest
XYStride(lens) ==
    [i \in 1..Len(lens) |->
        IF Len(lens) < 2 THEN 1
        ELSE IF i = 2 THEN lens[1] * SeqProd(SubSeq(lens, 3, Len(lens)))
        ELSE IF i = 1 THEN SeqProd(SubSeq(lens, 3, Len(lens)))
        ELSE SeqProd(SubSeq(lens, i + 1, Len(lens)))]

\* C6 as stated: the returned grid is the Cartesian product of the
\* per-dimension lists in row-major order, dimension 0 slowest and the last
\* dimension fastest, for every parameter count and finesse.
C6_RowMajor ==
    MadeGrid =>
        LET grid   == LastGrid
            slices == LastSlices
            stride == RowMajorStride(LastFin)
        IN  /\ Len(grid) = SeqProd(LastFin)
            /\ \A k \in 1..Len(grid) : grid[k] = ProductEntry(slices, stride, k)

\* C6 amended: the returned grid is the Cartesian product of the per-dimension
\* lists, flattened with dimension 1 slowest, then dimension 0, then dimensions
\* 2 and up with the last fastest (one dimension: in list order).
C6_XYOrder ==
    MadeGrid =>
        LET grid   == LastGrid
            slices == LastSlices
            stride == XYStride(LastFin)
        IN  /\ Len(grid) = SeqProd(LastFin)
            /\ \A k \in 1..Len(grid) : grid[k] = ProductEntry(slices, stride, k)

\* three proper dimensions, each cut into several cells
C6_Witness ==
    /\ MadeGrid
    /\ Len(LastMin) = 3
    /\ \A i \in 1..3 : LastMin[i] < LastMax[i] /\ LastFin[i] >= 2
    /\ Len(LastGrid) = SeqProd(LastFin)
    /\ LastGrid[2][3] # LastGrid[1][3]
    /\ LastGrid[1 + LastFin[3]][1] # LastGrid[1][1]

(***************************************************************************)
(* Claims about the guess grid and the model grid of a session (Spec)      *)
(***************************************************************************)
\* the model grid held in memory is the synthesis of the current guess grid
ModelGridInSync ==
    LET gg == Get(guess_grid)
        mg == Get(model_grid)
    IN  /\ mg.shape = <<Len(gg), NChan>>
        /\ Len(mg.rows) = Len(gg)
        /\ \A i \in 1..Len(gg) : mg.rows[i] = get_full_model(gg[i])

\* C7 as stated: whenever the session holds a guess grid and an in-memory
\* model grid, the model grid has one spectrum per guess-grid entry, spectrum
\* i synthesized from guess i; it is never stale.
C7_NeverStale ==
    (IsSome(guess_grid) /\ IsSome(model_grid)) => ModelGridInSync

\* generate_model() with no guess_grid argument and no file just completed
GeneratedFromOwnGrid ==
    /\ last.op = "generate_model" /\ last.err = "none"
    /\ IsNone(last.args.guess_grid) /\ IsNone(last.args.to_file)
    /\ last.args.redo

\* what the session does guarantee: right after generate_model(), called
\* with no guess_grid argument and no to_file, completes, it holds a guess
\* grid and an in-memory model grid with one spectrum per guess-grid entry,
\* spectrum i synthesized from guess i.  (make_guess_grid and
\* expand_guess_grid do not regenerate it.)
C7_SyncedAfterGenerate ==
    GeneratedFromOwnGrid =>
        IsSome(guess_grid) /\ IsSome(model_grid) /\ ModelGridInSync

\* a model grid generated from an expanded guess grid of several entries
C7_Witness ==
    /\ GeneratedFromOwnGrid
    /\ Len(hist) >= 2
    /\ Len(Get(guess_grid)) >= 3
    /\ \E i, j \in 1..Len(Get(guess_grid)) :
          Get(model_grid).rows[i] # Get(model_grid).rows[j]

\* the sub-grid a recorded builder call generated
SubGridOf(a) ==
    _grid_parspace(asarray(a.minpars), asarray(a.maxpars), a.finesse, a.clip_edges)

\* C8: the guess grid is the old entries, unchanged and in order, followed by
\* each expansion's sub-grid in generation order, after any number of
\* expansions: it is the concatenation of the sub-grids of make_guess_grid and
\* of every expand_guess_grid since, oldest first.
C8_ExpandAppends ==
    IsSome(guess_grid) =>
        /\ Len(hist) >= 1
        /\ Get(guess_grid) = Flatten([j \in 1..Len(hist) |-> SubGridOf(hist[j])])
        /\ Len(Get(guess_grid)) =
              SeqSum([j \in 1..Len(hist) |-> Len(SubGridOf(hist[j]))])

\* two successive expansions with different sub-grids
C8_Witness ==
    /\ IsSome(guess_grid) /\ Len(hist) = 3
    /\ last.op = "expand_guess_grid" /\ last.err = "none"
    /\ SubGridOf(hist[1]) # SubGridOf(hist[2])
    /\ SubGridOf(hist[2]) # SubGridOf(hist[3])
    /\ Len(SubGridOf(hist[1])) >= 2

RECURSIVE FoldMin(_, _)
FoldMin(vs, i) ==
    IF Len(vs) = 1 THEN vs[1][i] ELSE Min2(vs[1][i], FoldMin(Tail(vs), i))

RECURSIVE FoldMax(_, _)
FoldMax(vs, i) ==
    IF Len(vs) = 1 THEN vs[1][i] ELSE Max2(vs[1][i], FoldMax(Tail(vs), i))

\* C9: after make_guess_grid with R0 and expansions with R1, R2, ..., the
\* recorded minpars / maxpars are the element-wise minimum / maximum over all
\* of R0, R1, R2, ... (a value that does not depend on the order of the
\* expansions), so no recorded minimum is above, and no recorded maximum
\* below, that of any range applied.
C9_BoundsWiden ==
    IsSome(guess_grid) =>
        LET mins == [j \in 1..Len(hist) |-> asarray(hist[j].minpars)]
            maxs == [j \in 1..Len(hist) |-> asarray(hist[j].maxpars)]
            rec  == Get(fiteach_args)
        IN  /\ rec.minpars = [i \in 1..NPars |-> FoldMin(mins, i)]
            /\ rec.maxpars = [i \in 1..NPars |-> FoldMax(maxs, i)]
            /\ \A j \in 1..Len(hist) : \A i \in 1..NPars :
                  rec.minpars[i] <= mins[j][i] /\ rec.maxpars[i] >= maxs[j][i]

\* two expansions, where the last one widens one bound and leaves alone
\* another that an earlier range had set
C9_Witness ==
    /\ IsSome(guess_grid) /\ Len(hist) = 3
    /\ last.op = "expand_guess_grid" /\ last.err = "none"
    /\ \E i \in 1..NPars :
          Get(fiteach_args).minpars[i] < asarray(hist[3].minpars)[i]
    /\ \E i \in 1..NPars :
          /\ Get(fiteach_args).maxpars[i] = asarray(hist[3].maxpars)[i]
          /\ asarray(hist[3].maxpars)[i] > asarray(hist[1].maxpars)[i]
          /\ asarray(hist[3].maxpars)[i] > asarray(hist[2].maxpars)[i]

(***************************************************************************)
(* Claims about the best-guess selector (SpecSel)                          *)
(***************************************************************************)
\* the model grid the last best_guess call worked on; best_guess changes
\* neither the session's grid nor the files
CalledGrid ==
    IF IsSome(last.args.model_grid) THEN last.args.model_grid
    ELSE IF IsSome(last.args.from_file)
    THEN (IF IsSome(files[Get(last.args.from_file)])
          THEN Some([shape  |-> Get(files[Get(last.args.from_file)]).shape,
                     rows   |-> Get(files[Get(last.args.from_file)]).rows,
                     memmap |-> last.args.mmap_mode])
          ELSE None)
    ELSE model_grid

\* the last call was best_guess and it got as far as choosing its tier
TierReached == last.op = "best_guess" /\ InfoResid \in last.log

\* the tier it entered, read from the warnings it logged
TierTaken ==
    IF WarnNested \in last.log THEN "nested"
    ELSE IF WarnSlow \in last.log THEN "per-pixel"
    ELSE "broadcast"

CalledG == Get(CalledGrid).shape[1]

\* cube_bytes * G * 2, in words
CalledFootprint == NChan * NY * NX * CalledG * 2

Completed == last.op = "best_guess" /\ last.err = "none"

CutGiven == cut_given(last.args)

\* pixel (y, x) is not excluded by the SNR cut of the last call
Passes(y, x) ==
    CutGiven => snr_greater(Get(snr_map)[y][x], Get(last.args.sn_cut))

\* the residual of every model of the called grid at every pixel
TrueResidual == residual_broadcast(Get(CalledGrid).rows)

\* i is the lowest index in [0, G) of a minimal residual at pixel (y, x)
IsLowestArgmin(res, y, x, i) ==
    /\ i \in 0..(Len(res) - 1)
    /\ \A h \in 1..Len(res) : res[i + 1][y][x] <= res[h][y][x]
    /\ \A h \in 1..i : res[h][y][x] > res[i + 1][y][x]

\* C1 as stated: after a successful best_guess, for every pixel not excluded
\* by an SNR cut, best_model_index is an index in [0, G) of minimal residual
\* RMS, the lowest among ties, and min_residual is that minimal residual.
C1_MinimalResidual ==
    Completed =>
        LET res == TrueResidual
            bm  == Get(best_map)
            rm  == Get(best_rmsmap)
        IN  \A y \in Rows, x \in Cols :
                Passes(y, x) =>
                    /\ IsLowestArgmin(res, y, x, bm[y][x])
                    /\ rm[y][x] = res[bm[y][x] + 1][y][x]

\* what the broadcast tier computes for the cube, grid and cut of the last
\* call: the residuals after the SNR mask (None if the masking raises)
BroadcastMasked ==
    IF CutGiven
    THEN mask_residual(TrueResidual,
                       get_slice_mask([y \in Rows |-> [x \in Cols |->
                           snr_greater(Get(snr_map)[y][x], Get(last.args.sn_cut))]]),
                       strict_index)
    ELSE Some(TrueResidual)

\* C2 as stated: for a fixed cube, model grid and SNR cut, whichever tier
\* best_guess enters (broadcast, per-pixel or nested), the call completes and
\* stores the same best_model_index and min_residual maps: those of the
\* broadcast computation.
C2_TiersAgree ==
    (/\ TierReached /\ IsSome(guess_grid)
     /\ CutGiven => IsSome(snr_map)
     /\ (CutGiven => IsSome(snr_map)) => IsSome(BroadcastMasked))
    =>  /\ last.err = "none"
        /\ best_map = Some(argmin_axis0(Get(BroadcastMasked)))
        /\ best_rmsmap = Some(min_axis0(Get(BroadcastMasked)))

\* C4 as stated: when best_guess is called with an SNR cutoff, every pixel
\* whose signal-to-noise does not exceed the cutoff gets the undefined marker
\* in best_model_index, pixels that pass keep their true minimum-residual
\* model, and when no pixel passes the call completes without raising.
C4_MaskedUndefined ==
    (TierReached /\ CutGiven /\ IsSome(snr_map) /\ IsSome(guess_grid)) =>
        /\ (\A y \in Rows, x \in Cols : ~Passes(y, x)) => last.err = "none"
        /\ last.err = "none" =>
              \A y \in Rows, x \in Cols :
                  IF Passes(y, x)
                  THEN IsLowestArgmin(TrueResidual, y, x, Get(best_map)[y][x])
                  ELSE Get(best_map)[y][x] = NaN

\* the model selected at most pixels of the whole map, the lowest index among
\* equally frequent ones
GlobalMode(bm) ==
    LET count(v) == Cardinality({p \in Rows \X Cols : bm[p[1]][p[2]] = v})
        vals     == {bm[p[1]][p[2]] : p \in Rows \X Cols}
    IN  CHOOSE v \in vals :
            \A w \in vals : count(w) < count(v) \/ (count(w) = count(v) /\ v <= w)

\* C10 as stated: the overall best guess stored by best_guess is the
\* guess-grid entry of the model selected most frequently over all unmasked
\* pixels of the whole map, ties going to the lowest model index.  (Taken
\* here for calls without an SNR cut, where every pixel is unmasked.)
C10_GlobalMode ==
    (Completed /\ ~CutGiven) =>
        /\ best_model = Some(GlobalMode(Get(best_map)))
        /\ best_guess_attr = Some(Get(guess_grid)[GlobalMode(Get(best_map)) + 1])

(***************************************************************************)
(* Claims about best_guess at the edges (SpecEdge, SpecSel)                *)
(***************************************************************************)
\* best_guesses is a P x Y x X array whose vector at every pixel is the
\* guess-grid entry at that pixel's best model index
LooksUpGuessGrid ==
    LET gg  == Get(guess_grid)
        bm  == Get(best_map)
        bgs == Get(best_guesses)
    IN  /\ DOMAIN bgs = 1..Len(gg[1])
        /\ \A p \in DOMAIN bgs :
              /\ DOMAIN bgs[p] = Rows
              /\ \A y \in Rows :
                    /\ DOMAIN bgs[p][y] = Cols
                    /\ \A x \in Cols : bgs[p][y][x] = gg[bm[y][x] + 1][p]

\* the spectrum selected at every pixel is the one synthesized from the
\* guess-grid entry at that pixel's best model index
SelectedSynthesizedFromGuess ==
    \A y \in Rows, x \in Cols :
        Get(CalledGrid).rows[Get(best_map)[y][x] + 1]
            = get_full_model(Get(guess_grid)[Get(best_map)[y][x] + 1])

\* C11 as stated: after a successful best_guess, best_guesses has shape
\* P x Y x X and for every pixel its vector equals
\* guess_grid[best_model_index[y,x]], the guess-grid entry from which the
\* selected model spectrum was synthesized.
C11_SelectedGuess ==
    Completed => LooksUpGuessGrid /\ SelectedSynthesizedFromGuess

\* memory ran out while the last best_guess call was computing the residuals
\* of the full-broadcast tier
OomOnBroadcast ==
    /\ TierReached
    /\ last.args.env.oom
    /\ ~slow_path(available_memory(last.args), broadcast_threshold(CalledG))

\* C12 as stated: if memory is exhausted while best_guess computes residuals
\* on the full-broadcast tier, the condition is caught and the computation
\* continues on a slower tier; the call never ends in an out-of-memory failure.
C12_OomFallsBack ==
    OomOnBroadcast => last.err # "MemoryError" /\ TierTaken # "broadcast"


\* the last best_guess call was given a memory_limit and chose a tier
LimitGiven == TierReached /\ IsSome(last.args.memory_limit)

\* the caller's limit (in half-gigabytes) in words
LimitWords == Get(last.args.memory_limit) * (GiB \div 2)

\* C13 as stated: when the caller passes memory_limit, the tier decision
\* compares the broadcast footprint against that limit, not against the memory
\* the environment reports, however the environment's memory was queried.
C13_LimitDecidesTier ==
    LimitGiven => ((TierTaken = "broadcast") <=> (LimitWords >= CalledFootprint))


\* the last call was best_guess(from_file = f) and the file that
\* generate_model(to_file = f) writes is in place
RoundTrip ==
    /\ last.op = "best_guess"
    /\ IsNone(last.args.model_grid) /\ IsSome(last.args.from_file)
    /\ IsSome(files[npy_save_name(Get(last.args.from_file))])

\* the grid that generate_model(to_file = f) persisted
PersistedGrid == Get(files[npy_save_name(Get(last.args.from_file))])

\* what the same call leaves behind when handed that grid as an array in
\* memory
InMemoryOutcome ==
    LET rows == PersistedGrid.rows
        mem  == available_memory(last.args)
    IN  IF slow_path(mem, broadcast_threshold(Len(rows)))
        THEN select_best(last.args, residual_per_pixel(rows), {})
        ELSE select_best(last.args, residual_broadcast(rows), {})

\* C14 as stated: a model grid persisted by generate_model(to_file = f) and
\* read back by best_guess(from_file = f), memory-mapped or not and whatever
\* the available memory, gives the same best_model_index, min_residual and
\* best_guesses as best_guess on the same grid held in memory.
C14_RoundTrip ==
    RoundTrip =>
        LET o == InMemoryOutcome
        IN  /\ last.err = o.err
            /\ o.err = "none" =>
                  /\ best_map = o.best_map
                  /\ best_rmsmap = o.best_rmsmap
                  /\ best_guesses = o.best_guesses


\* the last step ran the best_guess method: the attribute of that name was
\* still the method (no earlier call had stored the overall best guess in it)
RanBestGuess ==
    last.op = "best_guess" /\ (IsNone(best_guess_attr) \/ Completed)

\* the model grid argument, or failing that the grid of the session
CalledShape == Get(CalledGrid).shape

CalledChannels == CalledShape[Len(CalledShape)]

outputs == <<best_map, best_rmsmap, best_guesses, best_model, best_guess_attr,
             best_snr_guess>>

\* the step is a best_guess call that failed
FailedBestGuess == last'.op = "best_guess" /\ last'.err # "none"

\* C16 as stated: whenever a best_guess call fails, for whatever reason, every
\* previously stored selection output (best_model_index map, min_residual
\* map, best_guesses, overall best guess, best-at-peak-SNR guess) and the
\* guess grid are exactly as before the call.
C16_FailureKeepsOutputs ==
    [][FailedBestGuess => UNCHANGED <<outputs, guess_grid>>]_vars


(***************************************************************************)
(* Claims about generate_model and make_guess_grid at the edges            *)
(***************************************************************************)
\* the step is generate_model with no guess_grid argument, on a session that
\* has its model type and holds no guess grid
GenerateWithoutGuessGrid ==
    /\ last'.op = "generate_model"
    /\ IsSome(fittype)
    /\ IsNone(last'.args.guess_grid)
    /\ IsNone(guess_grid)

\* C17 as stated: generate_model called with no guess_grid argument on a
\* session where no guess grid has been built reports a missing-guess-grid
\* precondition failure (not an invalid-shape failure, not a failed model
\* evaluation) and leaves the model grid unchanged.
C17_MissingGuessGrid ==
    [][GenerateWithoutGuessGrid =>
          last'.err = "RuntimeError" /\ UNCHANGED model_grid]_vars


\* the step is generate_model, on a session that has its model type, with a
\* guess_grid argument of more than 2 axes
GenerateFromSpatialGrid ==
    /\ last'.op = "generate_model"
    /\ IsSome(fittype)
    /\ IsSome(last'.args.guess_grid)
    /\ Len(Get(last'.args.guess_grid).shape) > 2

\* C18 as stated: generate_model rejects every spatially varying guess grid
\* (Y x X x P or N x Y x X x P), one of the cube's own spatial size included,
\* with a not-supported failure, and produces no model grid for it.
C18_SpatialRejected ==
    [][GenerateFromSpatialGrid =>
          last'.err = "NotImplementedError" /\ UNCHANGED <<model_grid, files>>]_vars


BoundsError == "error: minimal parameters larger than the maximal ones"

\* the last call was make_guess_grid, on a session that has its model type,
\* with minpars[i] > maxpars[i] in some dimension
MadeWithInvertedBounds ==
    /\ last.op = "make_guess_grid"
    /\ IsSome(fittype)
    /\ ~ValidBounds

\* C19: when some dimension has minpars[i] > maxpars[i], make_guess_grid logs
\* an invalid-bounds error and still completes: it builds a grid of
\* prod(finesse) entries, stores it as the guess grid, and records minpars and
\* maxpars as given, neither swapped nor corrected.  Bounds with no such
\* dimension log no error.
C19_InvertedBoundsReported ==
    /\ MadeWithInvertedBounds =>
          /\ last.err = "none"
          /\ BoundsError \in last.log
          /\ Len(LastGrid) = SeqProd(LastFin)
          /\ guess_grid = Some(LastGrid)
          /\ Get(fiteach_args).minpars = LastMin
          /\ Get(fiteach_args).maxpars = LastMax
    /\ (MadeGrid /\ ValidBounds) => BoundsError \notin last.log

\* a grid of several entries was built from bounds of which one dimension is
\* inverted and another is not
C19_Witness ==
    /\ MadeWithInvertedBounds
    /\ \E i \in 1..Len(LastMin) : LastMin[i] < LastMax[i]
    /\ Len(Get(guess_grid)) > 2
    /\ Get(fiteach_args).minpars # Get(fiteach_args).maxpars


GeneratingInfo == "info: generating spectral models"

\* the guess grid the step's generate_model call works on: its argument, or
\* failing that the guess grid of the session
GivenGuessGrid ==
    IF IsSome(last'.args.guess_grid) THEN last'.args.guess_grid
    ELSE IF IsSome(guess_grid) THEN Some(AsGuessArray(Get(guess_grid)))
    ELSE None

\* the step is generate_model on a session that has its model type, for a
\* guess grid of a shape it accepts
GenerateStep ==
    /\ last'.op = "generate_model"
    /\ IsSome(fittype)
    /\ IsSome(GivenGuessGrid)
    /\ ~invalid_guess_shape(Get(GivenGuessGrid).shape)

\* regeneration is not forced and the named file is in place
FileInPlace ==
    /\ ~last'.args.redo
    /\ IsSome(last'.args.to_file)
    /\ IsSome(files[Get(last'.args.to_file)])

\* C20 as stated: generate_model skips regeneration exactly when redo is False
\* and the named file exists: it then evaluates no model and leaves the model
\* grid, the guess grid and the file unchanged; in every other case
\* (redo True, file absent, or redo False with no file named) it regenerates
\* the model grid without failing.
C20_SkipExactly ==
    [][GenerateStep =>
          IF FileInPlace
          THEN /\ last'.err = "none"
               /\ GeneratingInfo \notin last'.log
               /\ UNCHANGED <<model_grid, guess_grid, files>>
          ELSE /\ last'.err = "none"
               /\ GeneratingInfo \in last'.log]_vars


(***************************************************************************)
(* Claims about the low-confidence warning (SpecMode)                      *)
(***************************************************************************)
\* the best map of the last overall_best_model step
ReportedMap == last.args.best_map

MapPixels(bm) == (1..Len(bm)) \X (1..Len(bm[1]))

\* at how many pixels of the whole map the most frequently selected model
\* is the best one
GlobalModeCount(bm) ==
    LET count(v) == Cardinality({p \in MapPixels(bm) : bm[p[1]][p[2]] = v})
        vals     == {bm[p[1]][p[2]] : p \in MapPixels(bm)}
    IN  CHOOSE n \in 1..Cardinality(MapPixels(bm)) :
            /\ \E v \in vals : count(v) = n
            /\ \A w \in vals : count(w) <= n

\* C21 as stated: the low-confidence warning is reported exactly when the
\* model selected most frequently over the whole map accounts for under 5% of
\* the pixels (none of them masked here); the warning is not fatal and the
\* overall best model is still stored.
C21_LowConfidenceExactly ==
    last.op = "overall_best_model" =>
        /\ (WarnFrac \in last.log) <=>
              (GlobalModeCount(ReportedMap) * 20 < Cardinality(MapPixels(ReportedMap)))
        /\ last.err = "none"
        /\ IsSome(best_model) /\ best_map = Some(ReportedMap)

(***************************************************************************)
(* Claims about the default masks of get_snr_map (SpecEdge)                *)
(***************************************************************************)
\* channel c lies in the inner third of the spectral axis, between the two
\* default cuts (source index c - 1)
InnerThird(c) ==
    default_i_low(NChan) <= c - 1 /\ c - 1 < default_i_high(NChan)

\* C22 as stated: after get_snr_map with no signal or noise ranges the default
\* masks partition the spectral axis: every channel of the two outer thirds,
\* the last channel included, is in the noise mask, every channel of the inner
\* third is in the signal mask, no channel is in both or in neither, and the
\* signal mask is not empty.
C22_DefaultMasksPartition ==
    IsSome(mask_signal) =>
        /\ \A c \in Channels :
              /\ Get(mask_signal)[c] <=> InnerThird(c)
              /\ Get(mask_noise)[c] <=> ~InnerThird(c)
        /\ MaskChannels(Get(mask_signal)) # {}


(***************************************************************************)
(* Claims about unit conversion (SpecUnit)                                 *)
(***************************************************************************)
\* the last call was get_mask with a range in a physical unit, on a cube
\* whose axis is in frequency and came without a velocity convention
MaskWithoutConvention ==
    /\ last.op = "get_mask"
    /\ last.args.unit \notin PixelUnits
    /\ xarr_given.unit = "Hz"
    /\ IsNone(xarr_given.velocity_convention)

\* C23 as stated: a cube whose spectral axis has no velocity convention keeps
\* it unset; when ranges given in a physical unit cannot be converted for lack
\* of a velocity convention, get_mask reports a unit-conversion failure with
\* guidance; at no point does the session assign a default convention.
C23_ConventionNotDefaulted ==
    /\ IsNone(xarr_given.velocity_convention) => IsNone(velocity_convention)
    /\ MaskWithoutConvention =>
          last.err = "UnitConversionError" /\ UnitGuidance \in last.log


(***************************************************************************)
(* Claims about sessions without a model type and repeated selection       *)
(***************************************************************************)
\* the step is make_guess_grid on a session whose model type was never set
MakeWithoutModelType == last'.op = "make_guess_grid" /\ IsNone(fittype)

\* C24 as stated: make_guess_grid on a session whose model type has not been
\* set fails as a precondition failure with no partial state mutation: the
\* recorded bounds and fit arguments and the guess grid are exactly as before
\* the call.
C24_NoPartialMutation ==
    [][MakeWithoutModelType =>
          last'.err # "none" /\ UNCHANGED <<fiteach_args, guess_grid>>]_vars


\* the step is a best_guess call with no arguments, on a machine with room,
\* made after an earlier call completed and stored the overall best guess, on
\* a session that holds a guess grid and a model grid of one spectrum per
\* guess
RepeatedSelection ==
    /\ IsSome(best_guess_attr)
    /\ last'.op = "best_guess"
    /\ last'.args = EdgeRetry
    /\ IsSome(guess_grid) /\ IsSome(model_grid)
    /\ Get(model_grid).shape = <<Len(Get(guess_grid)), NChan>>

\* C25 as stated: after a best_guess call has completed, a later best_guess
\* call on the same session is still possible, completes, and recomputes
\* best_model_index and min_residual from the current model grid and
\* best_guesses from them; storing the overall best guess never makes the
\* selection unavailable.
C25_SelectionRepeatable ==
    [][RepeatedSelection =>
          LET res == residual_broadcast(Get(model_grid).rows)
          IN  /\ last'.err = "none"
              /\ best_map' = Some(argmin_axis0(res))
              /\ best_rmsmap' = Some(min_axis0(res))
              /\ best_guesses' =
                    Some(rollaxis_last(index_rows(Get(guess_grid), argmin_axis0(res))))]_vars

====
